---------------------------- MODULE Spec2Model ----------------------------
(***************************************************************************)
(* Shape detector: the classifier and confidence scorer of                 *)
(* src/src/shape-classifier.ts and ShapeDetector.detectShapes of           *)
(* src/unnamed/part_000 (binarization, Moore-neighbour contour tracing,    *)
(* flood-fill suppression, shape assembly).                                *)
(*                                                                         *)
(* Numbers.  A JavaScript number is modelled as a pair <<n, d>> with       *)
(* d >= 0, kept in lowest terms: d > 0 is the rational n/d, <<1, 0>> is    *)
(* +Infinity, <<-1, 0>> is -Infinity and <<0, 0>> is NaN.  Rounding of     *)
(* IEEE doubles is not modelled; Math.PI is modelled by 355/113.           *)
(***************************************************************************)
EXTENDS Integers, Sequences, FiniteSets, TLC

(***************************************************************************)
(* Bounds of the model.                                                    *)
(***************************************************************************)
MaxVertices == 15      \* classifier / scorer inputs: vertices in 0..MaxVertices
MaxCirc == 44          \* circularity inputs: k/40 for k in 0..MaxCirc
MaxBox == 2            \* scorer inputs: bounding box sides in 0..MaxBox
MaxCells == 9          \* every raster with width * height <= MaxCells is an input
MaxContour == 24       \* points a contour array can hold before memory runs out
MaxCoord == 2          \* contour inputs: coordinates in -1..MaxCoord
MaxPoints == 3         \* contour inputs: at most MaxPoints points

VARIABLES
    pc,                \* position in detectShapes, or in a call of a pure function
    args,              \* arguments of the pure function being called
    result,            \* its return value
    imageData,         \* [width, height, data]: data[i] is the red channel of pixel i
    binaryMap,         \* 0 = black (foreground), 1 = white; indexed from 0
    x, y,              \* raster-scan position
    startPixel, currentPixel, pixelToCOmeFrom,
    newContour,        \* contour being traced
    allContours,
    ci,                \* index of the contour the shape loop is at
    shapes

vars == <<pc, args, result, imageData, binaryMap, x, y, startPixel,
          currentPixel, pixelToCOmeFrom, newContour, allContours, ci, shapes>>

pipelineVars == <<imageData, binaryMap, x, y, startPixel, currentPixel,
                  pixelToCOmeFrom, newContour, allContours, ci, shapes>>

(***************************************************************************)
(* JavaScript number arithmetic.                                           *)
(***************************************************************************)
Abs(n) == IF n < 0 THEN -n ELSE n

Sign(n) == IF n < 0 THEN -1 ELSE IF n > 0 THEN 1 ELSE 0

RECURSIVE GCD(_, _)
GCD(a, b) == IF b = 0 THEN a ELSE GCD(b, a % b)

Norm(a) ==
    IF a[2] = 0 THEN <<Sign(a[1]), 0>>
    ELSE LET g == GCD(Abs(a[1]), a[2]) IN <<a[1] \div g, a[2] \div g>>

NaN == <<0, 0>>

IsNaN(a) == a = NaN

Whole(n) == <<n, 1>>

Dec(hundredths) == Norm(<<hundredths, 100>>)

\* a < b, a > b, a <= b, a >= b: false when either side is NaN
Lt(a, b) == ~IsNaN(a) /\ ~IsNaN(b) /\ a[1] * b[2] < b[1] * a[2]

Gt(a, b) == Lt(b, a)

Le(a, b) == ~IsNaN(a) /\ ~IsNaN(b) /\ a[1] * b[2] <= b[1] * a[2]

Ge(a, b) == Le(b, a)

Sub(a, b) == Norm(<<a[1] * b[2] - b[1] * a[2], a[2] * b[2]>>)

Add(a, b) == Norm(<<a[1] * b[2] + b[1] * a[2], a[2] * b[2]>>)

Mul(a, b) == Norm(<<a[1] * b[1], a[2] * b[2]>>)

\* w / h for integers w, h >= 0 (0/0 is NaN, w/0 is Infinity)
Div(w, h) == Norm(<<w, h>>)

\* 1 / a for a >= 0
Recip(a) == Norm(<<a[2], a[1]>>)

MathMin(a, b) == IF IsNaN(a) \/ IsNaN(b) THEN NaN ELSE IF Lt(b, a) THEN b ELSE a

MathMax(a, b) == IF IsNaN(a) \/ IsNaN(b) THEN NaN ELSE IF Gt(b, a) THEN b ELSE a

(***************************************************************************)
(* classifyShape                                                           *)
(***************************************************************************)
\* classifyShape with the circularity gate moved in front of the vertex rules
classifyShapeCircleFirst(vertices, circularity) ==
    IF Gt(circularity, Dec(75)) THEN "circle"
    ELSE IF vertices = 3 THEN "triangle"
    ELSE IF vertices = 4 THEN "rectangle"
    ELSE IF vertices = 5 THEN "pentagon"
    ELSE IF vertices >= 10 /\ vertices <= 12 THEN
        (IF Lt(circularity, Dec(70)) THEN "star" ELSE "circle")
    ELSE IF vertices >= 6 /\ vertices <= 9 THEN
        (IF vertices <= 7 THEN "pentagon" ELSE "star")
    ELSE IF vertices > 12 THEN "circle"
    ELSE "null"

\* classifyShape with the star band's circularity test dropped
classifyShapeStarBandUntested(vertices, circularity) ==
    IF vertices = 3 THEN "triangle"
    ELSE IF vertices = 4 THEN "rectangle"
    ELSE IF vertices = 5 THEN "pentagon"
    ELSE IF vertices >= 10 /\ vertices <= 12 THEN "star"
    ELSE IF vertices >= 6 /\ vertices <= 9 THEN
        (IF Gt(circularity, Dec(75)) THEN "circle"
         ELSE IF vertices <= 7 THEN "pentagon"
         ELSE "star")
    ELSE IF vertices > 12 THEN "circle"
    ELSE IF Gt(circularity, Dec(80)) THEN "circle"
    ELSE "null"

\* classifyShape with the 6-9 band's circle threshold at 0.65
classifyShapeBand65(vertices, circularity) ==
    IF vertices = 3 THEN "triangle"
    ELSE IF vertices = 4 THEN "rectangle"
    ELSE IF vertices = 5 THEN "pentagon"
    ELSE IF vertices >= 10 /\ vertices <= 12 THEN
        (IF Lt(circularity, Dec(70)) THEN "star" ELSE "circle")
    ELSE IF vertices >= 6 /\ vertices <= 9 THEN
        (IF Gt(circularity, Dec(65)) THEN "circle"
         ELSE IF vertices <= 7 THEN "pentagon"
         ELSE "star")
    ELSE IF vertices > 12 THEN "circle"
    ELSE IF Gt(circularity, Dec(80)) THEN "circle"
    ELSE "null"

classifyShape(vertices, circularity) ==
    IF vertices = 3 THEN "triangle"
    ELSE IF vertices = 4 THEN "rectangle"
    ELSE IF vertices = 5 THEN "pentagon"
    ELSE IF vertices >= 10 /\ vertices <= 12 THEN
        (IF Lt(circularity, Dec(70)) THEN "star" ELSE "circle")
    ELSE IF vertices >= 6 /\ vertices <= 9 THEN
        (IF Gt(circularity, Dec(75)) THEN "circle"
         ELSE IF vertices <= 7 THEN "pentagon"
         ELSE "star")
    ELSE IF vertices > 12 THEN "circle"
    ELSE IF Gt(circularity, Dec(80)) THEN "circle"
    ELSE "null"

(***************************************************************************)
(* calculateConfidence and the per-type scorers                            *)
(***************************************************************************)
calculateCircleConfidence(circularity, normalizedAspectRatio, contourLength) ==
    LET base == IF Gt(circularity, Dec(85)) THEN Dec(95)
                ELSE IF Gt(circularity, Dec(75)) THEN Dec(85)
                ELSE IF Gt(circularity, Dec(65)) THEN Dec(70)
                ELSE Dec(50)
        aspectRatioPenalty == Mul(Sub(Whole(1), normalizedAspectRatio), Dec(20))
        c1 == Sub(base, aspectRatioPenalty)
    IN  IF contourLength < 50 THEN Mul(c1, Dec(80)) ELSE c1

\* calculateTriangleConfidence with the circularity penalty at >= 0.7
calculateTriangleConfidenceGe(vertices, circularity, contourLength) ==
    LET c0 == IF vertices # 3 THEN Dec(50) ELSE Dec(90)
        c1 == IF Lt(circularity, Dec(50)) THEN MathMin(c0, Dec(95))
              ELSE IF Ge(circularity, Dec(70)) THEN Mul(c0, Dec(70))
              ELSE c0
    IN  IF contourLength < 30 THEN Mul(c1, Dec(80)) ELSE c1

calculateTriangleConfidence(vertices, circularity, contourLength) ==
    LET c0 == IF vertices # 3 THEN Dec(50) ELSE Dec(90)
        c1 == IF Lt(circularity, Dec(50)) THEN MathMin(c0, Dec(95))
              ELSE IF Gt(circularity, Dec(70)) THEN Mul(c0, Dec(70))
              ELSE c0
    IN  IF contourLength < 30 THEN Mul(c1, Dec(80)) ELSE c1

calculateRectangleConfidence(vertices, normalizedAspectRatio, circularity, contourLength) ==
    LET c0 == IF vertices # 4 THEN Dec(50) ELSE Dec(90)
        c1 == IF Lt(circularity, Dec(70)) THEN MathMin(c0, Dec(95))
              ELSE IF Gt(circularity, Dec(80)) THEN Mul(c0, Dec(60))
              ELSE c0
    IN  IF contourLength < 40 THEN Mul(c1, Dec(80)) ELSE c1

calculatePentagonConfidence(vertices, circularity, contourLength) ==
    LET c0 == IF vertices # 5 THEN Dec(50) ELSE Dec(85)
        c1 == IF Ge(circularity, Dec(60)) /\ Le(circularity, Dec(80))
                  THEN MathMin(c0, Dec(90))
              ELSE IF Gt(circularity, Dec(80)) THEN Mul(c0, Dec(70))
              ELSE IF Lt(circularity, Dec(40)) THEN Mul(c0, Dec(70))
              ELSE c0
    IN  IF contourLength < 50 THEN Mul(c1, Dec(80)) ELSE c1

calculateStarConfidence(vertices, circularity, contourLength) ==
    LET c0 == IF vertices >= 10 /\ vertices <= 12 THEN Dec(85)
              ELSE IF vertices >= 8 /\ vertices <= 14 THEN Dec(75)
              ELSE Dec(60)
        c1 == IF Lt(circularity, Dec(50)) THEN MathMin(Add(c0, Dec(10)), Dec(95))
              ELSE IF Gt(circularity, Dec(65)) THEN Mul(c0, Dec(60))
              ELSE c0
    IN  IF contourLength < 60 THEN Mul(c1, Dec(80)) ELSE c1

calculateConfidence(shapeType, vertices, circularity, contourLength, boundingBox) ==
    LET aspectRatio == Div(boundingBox.width, boundingBox.height)
        normalizedAspectRatio == MathMin(aspectRatio, Recip(aspectRatio))
        confidence ==
            CASE shapeType = "circle" ->
                   calculateCircleConfidence(circularity, normalizedAspectRatio,
                                             contourLength)
              [] shapeType = "triangle" ->
                   calculateTriangleConfidence(vertices, circularity, contourLength)
              [] shapeType = "rectangle" ->
                   calculateRectangleConfidence(vertices, normalizedAspectRatio,
                                                circularity, contourLength)
              [] shapeType = "pentagon" ->
                   calculatePentagonConfidence(vertices, circularity, contourLength)
              [] shapeType = "star" ->
                   calculateStarConfidence(vertices, circularity, contourLength)
              [] OTHER -> Whole(1)
    IN  MathMax(Whole(0), MathMin(Whole(1), confidence))

(***************************************************************************)
(* Calls of the pure functions on bounded inputs.                          *)
(***************************************************************************)
ShapeTypes == {"circle", "triangle", "rectangle", "pentagon", "star"}

Circularities == {Norm(<<k, 40>>) : k \in 0..MaxCirc}

ContourLengths == {0, 10, 29, 30, 39, 40, 49, 50, 59, 60, 100}

NoPixel == [x |-> 0, y |-> 0]

\* detectShapes is not running
Idle ==
    /\ imageData = [width |-> 0, height |-> 0, data |-> <<>>]
    /\ binaryMap = <<>>
    /\ x = 0 /\ y = 0
    /\ startPixel = NoPixel /\ currentPixel = NoPixel /\ pixelToCOmeFrom = NoPixel
    /\ newContour = <<>> /\ allContours = <<>> /\ ci = 0 /\ shapes = <<>>

InitClassify ==
    /\ pc = "classify"
    /\ args \in [vertices : 0..MaxVertices, circularity : Circularities]
    /\ result = "pending"
    /\ Idle

ClassifyCall ==
    /\ pc = "classify"
    /\ result' = classifyShape(args.vertices, args.circularity)
    /\ pc' = "classified"
    /\ UNCHANGED <<args, pipelineVars>>

ClassifySpec == InitClassify /\ [][ClassifyCall]_vars

InitConfidence ==
    /\ pc = "score"
    /\ args \in [shapeType : ShapeTypes, vertices : 0..MaxVertices,
                  circularity : Circularities, contourLength : ContourLengths,
                  boundingBox : [x : {0}, y : {0}, width : 0..MaxBox,
                                 height : 0..MaxBox]]
    /\ result = "pending"
    /\ Idle

ConfidenceCall ==
    /\ pc = "score"
    /\ result' = calculateConfidence(args.shapeType, args.vertices, args.circularity,
                                     args.contourLength, args.boundingBox)
    /\ pc' = "scored"
    /\ UNCHANGED <<args, pipelineVars>>

ConfidenceSpec == InitConfidence /\ [][ConfidenceCall]_vars

(***************************************************************************)
(* calculateShapeProperties and perpendicularDistance                      *)
(***************************************************************************)
Pixel(px, py) == [x |-> px, y |-> py]

SetMin(S) == CHOOSE m \in S : \A n \in S : m <= n

SetMax(S) == CHOOSE m \in S : \A n \in S : m >= n

\* the shoelace sum without the edge from the last point back to the first
RECURSIVE ShoelaceOpen(_, _)
ShoelaceOpen(contour, i) ==
    IF i >= Len(contour) THEN 0
    ELSE contour[i].x * contour[i + 1].y - contour[i + 1].x * contour[i].y
         + ShoelaceOpen(contour, i + 1)

\* the shoelace sum: contour[i].x * contour[j].y - contour[j].x * contour[i].y
\* over i = 0 .. length-1 with j = (i + 1) % length (here from index 1)
RECURSIVE Shoelace(_, _)
Shoelace(contour, i) ==
    IF i > Len(contour) THEN 0
    ELSE LET j == (i % Len(contour)) + 1
         IN  contour[i].x * contour[j].y - contour[j].x * contour[i].y
             + Shoelace(contour, i + 1)

calculateShapeProperties(contour) ==
    IF Len(contour) = 0
    THEN [area |-> Whole(0),
          boundingBox |-> [x |-> 0, y |-> 0, width |-> 0, height |-> 0],
          center |-> [x |-> Whole(0), y |-> Whole(0)]]
    ELSE LET xs == {contour[i].x : i \in 1..Len(contour)}
             ys == {contour[i].y : i \in 1..Len(contour)}
             minX == SetMin(xs)
             minY == SetMin(ys)
             maxX == SetMax(xs)
             maxY == SetMax(ys)
             boundingBox == [x |-> minX, y |-> minY,
                             width |-> maxX - minX + 1,
                             height |-> maxY - minY + 1]
             center == [x |-> Add(Whole(minX), Div(boundingBox.width, 2)),
                        y |-> Add(Whole(minY), Div(boundingBox.height, 2))]
             area == Div(Abs(Shoelace(contour, 1)), 2)
         IN  [area |-> area, boundingBox |-> boundingBox, center |-> center]

\* calculateShapeProperties on its own: every contour of at most MaxPoints
\* points with coordinates in -1..MaxCoord, and the 4-pixel-wide square.
Square4 == <<Pixel(0, 0), Pixel(4, 0), Pixel(4, 4), Pixel(0, 4)>>

Contours ==
    LET points == {Pixel(a, b) : a \in (0 - 1)..MaxCoord, b \in (0 - 1)..MaxCoord}
    IN  UNION {[1..n -> points] : n \in 0..MaxPoints} \cup {Square4}

InitProperties ==
    /\ pc = "measure"
    /\ args \in Contours
    /\ result = "pending"
    /\ Idle

PropertiesCall ==
    /\ pc = "measure"
    /\ result' = calculateShapeProperties(args)
    /\ pc' = "measured"
    /\ UNCHANGED <<args, pipelineVars>>

PropertiesSpec == InitProperties /\ [][PropertiesCall]_vars

\* The square of perpendicularDistance(p, l1, l2): the code returns the square
\* root of this value, and its callers only compare distances.
perpendicularDistanceSq(p, l1, l2) ==
    LET A == p.x - l1.x
        B == p.y - l1.y
        C == l2.x - l1.x
        D == l2.y - l1.y
        dot == A * C + B * D
        lenSq == C * C + D * D
    IN  IF lenSq = 0 THEN Whole(A * A + B * B)
        ELSE LET param == Norm(<<dot, lenSq>>)
                 xx == IF Lt(param, Whole(0)) THEN Whole(l1.x)
                       ELSE IF Gt(param, Whole(1)) THEN Whole(l2.x)
                       ELSE Add(Whole(l1.x), Mul(param, Whole(C)))
                 yy == IF Lt(param, Whole(0)) THEN Whole(l1.y)
                       ELSE IF Gt(param, Whole(1)) THEN Whole(l2.y)
                       ELSE Add(Whole(l1.y), Mul(param, Whole(D)))
                 dx == Sub(Whole(p.x), xx)
                 dy == Sub(Whole(p.y), yy)
             IN  Add(Mul(dx, dx), Mul(dy, dy))

(***************************************************************************)
(* ramerDouglasPeucker (contour-simplification.js is not among the sources: *)
(* modelled from the specification, section 4.3).  epsilonSq is epsilon^2. *)
(***************************************************************************)
\* the squared distance of points[i] from the segment (first, last)
ChordDistSq(points, i) ==
    perpendicularDistanceSq(points[i], points[1], points[Len(points)])

\* the first inner point at maximum distance from the chord
FarthestIndex(points) ==
    LET inner == 2..(Len(points) - 1)
    IN  CHOOSE i \in inner :
            /\ \A k \in inner : Le(ChordDistSq(points, k), ChordDistSq(points, i))
            /\ \A k \in inner :
                   k < i => Lt(ChordDistSq(points, k), ChordDistSq(points, i))

DropLast(seq) == SubSeq(seq, 1, Len(seq) - 1)

RECURSIVE ramerDouglasPeucker(_, _)
ramerDouglasPeucker(points, epsilonSq) ==
    IF Len(points) < 3 THEN points
    ELSE IF Gt(ChordDistSq(points, FarthestIndex(points)), epsilonSq)
         THEN DropLast(ramerDouglasPeucker(
                         SubSeq(points, 1, FarthestIndex(points)), epsilonSq)) \o
              ramerDouglasPeucker(
                  SubSeq(points, FarthestIndex(points), Len(points)), epsilonSq)
         ELSE <<points[1], points[Len(points)]>>

(***************************************************************************)
(* ShapeDetector.detectShapes                                              *)
(***************************************************************************)
threshold == 127

width == imageData.width

height == imageData.height

Index(p) == p.y * width + p.x

\* binaryMap[i] === 0; an index outside the typed array reads undefined
IsForeground(map, i) == i \in DOMAIN map /\ map[i] = 0

Binarized(image) ==
    [i \in 0..(image.width * image.height - 1) |->
        IF image.data[i] < threshold THEN 0 ELSE 1]

\* the raster scan's next position: x++ in the inner loop, y++ in the outer
NextX == IF x + 1 < width THEN x + 1 ELSE 0

NextY == IF x + 1 < width THEN y ELSE y + 1

\* the 8 neighbours of the walk, clockwise from N (index 0 in the code)
neighbors(p) ==
    << Pixel(p.x, p.y - 1), Pixel(p.x + 1, p.y - 1), Pixel(p.x + 1, p.y),
       Pixel(p.x + 1, p.y + 1), Pixel(p.x, p.y + 1), Pixel(p.x - 1, p.y + 1),
       Pixel(p.x - 1, p.y), Pixel(p.x - 1, p.y - 1) >>

\* neighbors.findIndex(p => p is pixelToCOmeFrom), 0-based, -1 when absent
fromIndex(nb, from) ==
    LET at == {i \in 0..7 : nb[i + 1] = from}
    IN  IF at = {} THEN 0 - 1 ELSE SetMin(at)

\* the offsets i of the for loop at which the tested neighbour is foreground
Hits(map, nb, nextIndex) ==
    {i \in 0..7 : IsForeground(map, Index(nb[((nextIndex + i) % 8) + 1]))}

\* the 4 neighbours of the flood fill, in the code's order N, E, S, W
FillNeighbors(p) ==
    << Pixel(p.x, p.y - 1), Pixel(p.x + 1, p.y), Pixel(p.x, p.y + 1),
       Pixel(p.x - 1, p.y) >>

\* the flood fill's test without its bounds checks
FillAdmitsUnchecked(map, n) == IsForeground(map, Index(n))

FillAdmits(map, n) ==
    /\ n.x >= 0 /\ n.x < width /\ n.y >= 0 /\ n.y < height
    /\ map[Index(n)] = 0

\* the for loop over the 4 neighbours of one dequeued pixel
RECURSIVE FillScan(_, _, _, _)
FillScan(map, queue, ns, k) ==
    IF k > Len(ns) THEN <<map, queue>>
    ELSE IF FillAdmits(map, ns[k])
         THEN FillScan([map EXCEPT ![Index(ns[k])] = 1], Append(queue, ns[k]),
                       ns, k + 1)
         ELSE FillScan(map, queue, ns, k + 1)

\* while (queue.length > 0)
RECURSIVE FloodFill(_, _)
FloodFill(map, queue) ==
    IF queue = <<>> THEN map
    ELSE LET r == FillScan(map, Tail(queue), FillNeighbors(Head(queue)), 1)
         IN  FloodFill(r[1], r[2])

PI == <<355, 113>>

\* the vertex count of a simplified contour: its length, less one when its
\* first and last points are closer than 2
Vertices(simplifiedContour) ==
    LET n == Len(simplifiedContour)
        startPoint == simplifiedContour[1]
        endPoint == simplifiedContour[n]
        dx == startPoint.x - endPoint.x
        dy == startPoint.y - endPoint.y
    IN  IF n > 1 /\ dx * dx + dy * dy < 4 THEN n - 1 ELSE n

\* what the shape loop computes for one contour of at least 10 points
Measure(contour) ==
    LET perimeter == Len(contour)
        epsilon == Mul(Whole(perimeter), Dec(2))
        simplifiedContour == ramerDouglasPeucker(contour, Mul(epsilon, epsilon))
        vertices == Vertices(simplifiedContour)
        props == calculateShapeProperties(contour)
        circularity == Mul(Mul(Mul(Whole(4), PI), props.area),
                           <<1, perimeter * perimeter>>)
    IN  [vertices |-> vertices, circularity |-> circularity, props |-> props,
         type |-> classifyShape(vertices, circularity)]

\* the confidence detectShapes stores in a shape
ShapeConfidence(type, m, contour) == Whole(1)

DetectedShape(contour) ==
    LET m == Measure(contour)
    IN  [type |-> m.type,
         confidence |-> ShapeConfidence(m.type, m, contour),
         boundingBox |-> m.props.boundingBox,
         center |-> m.props.center,
         area |-> m.props.area]

(***************************************************************************)
(* Inputs: every raster of at most MaxCells pixels whose red channel is    *)
(* 0 (black) or 127 (the darkest white), and three larger rasters.         *)
(***************************************************************************)
RedLevels == {0, 127}

SmallRasters ==
    UNION { { [width |-> w, height |-> h, data |-> d] :
                d \in [0..(w * h - 1) -> RedLevels] } :
            <<w, h>> \in {wh \in (1..MaxCells) \X (1..MaxCells) :
                            wh[1] * wh[2] <= MaxCells} }

Raster(w, h, black) ==
    [width |-> w, height |-> h,
     data |-> [i \in 0..(w * h - 1) |->
                 IF Pixel(i % w, i \div w) \in black THEN 0 ELSE 255]]

Block(x0, y0, side) ==
    {Pixel(x0 + i, y0 + j) : i \in 0..(side - 1), j \in 0..(side - 1)}

OneSquare == Raster(6, 6, Block(1, 1, 4))

TwoSquares == Raster(11, 6, Block(1, 1, 4) \cup Block(6, 1, 4))

AllBlack10 == Raster(10, 10, Block(0, 0, 10))

\* a 4x4 square, a horizontal line of 6 pixels and a single pixel
SquareLineDot ==
    Raster(8, 10, Block(1, 1, 4) \cup {Pixel(i, 6) : i \in 1..6}
                                \cup {Pixel(1, 8)})

Rasters == SmallRasters \cup {OneSquare, TwoSquares, AllBlack10, SquareLineDot}

Init ==
    /\ pc = "binarize"
    /\ args = <<>>
    /\ result = "pending"
    /\ imageData \in Rasters
    /\ binaryMap = <<>>
    /\ x = 0 /\ y = 0
    /\ startPixel = NoPixel /\ currentPixel = NoPixel /\ pixelToCOmeFrom = NoPixel
    /\ newContour = <<>> /\ allContours = <<>> /\ ci = 0 /\ shapes = <<>>

Binarize ==
    /\ pc = "binarize"
    /\ binaryMap' = Binarized(imageData)
    /\ pc' = "scan"
    /\ UNCHANGED <<args, result, imageData, x, y, startPixel, currentPixel,
                   pixelToCOmeFrom, newContour, allContours, ci, shapes>>

\* a scanned pixel that is not foreground
ScanSkip ==
    /\ pc = "scan" /\ y < height
    /\ binaryMap[Index(Pixel(x, y))] # 0
    /\ x' = NextX /\ y' = NextY
    /\ UNCHANGED <<pc, args, result, imageData, binaryMap, startPixel,
                   currentPixel, pixelToCOmeFrom, newContour, allContours, ci,
                   shapes>>

\* a scanned foreground pixel starts a contour
ScanSeed ==
    /\ pc = "scan" /\ y < height
    /\ binaryMap[Index(Pixel(x, y))] = 0
    /\ startPixel' = Pixel(x, y)
    /\ currentPixel' = Pixel(x, y)
    /\ pixelToCOmeFrom' = Pixel(x - 1, y)
    /\ newContour' = <<Pixel(x, y)>>
    /\ pc' = "trace"
    /\ UNCHANGED <<args, result, imageData, binaryMap, x, y, allContours, ci,
                   shapes>>

\* the walk's next pixel exists and needs a slot of the contour array
WalkPushes ==
    LET nb == neighbors(currentPixel)
        nextIndex == (fromIndex(nb, pixelToCOmeFrom) + 1) % 8
        hits == Hits(binaryMap, nb, nextIndex)
    IN  hits # {} /\ nb[((nextIndex + SetMin(hits)) % 8) + 1] # startPixel

\* one iteration of the do-while loop of the Moore-neighbour walk
WalkStep ==
    /\ pc = "trace"
    /\ ~(WalkPushes /\ Len(newContour) >= MaxContour)
    /\ LET nb == neighbors(currentPixel)
           nextIndex == (fromIndex(nb, pixelToCOmeFrom) + 1) % 8
           hits == Hits(binaryMap, nb, nextIndex)
       IN  IF hits = {}
           THEN /\ pc' = "fill"
                /\ UNCHANGED <<currentPixel, pixelToCOmeFrom, newContour>>
           ELSE LET nextPixel == nb[((nextIndex + SetMin(hits)) % 8) + 1]
                IN  /\ pixelToCOmeFrom' = currentPixel
                    /\ currentPixel' = nextPixel
                    /\ newContour' = IF nextPixel # startPixel
                                     THEN Append(newContour, nextPixel)
                                     ELSE newContour
                    /\ pc' = IF nextPixel # startPixel THEN "trace" ELSE "fill"
    /\ UNCHANGED <<args, result, imageData, binaryMap, x, y, startPixel,
                   allContours, ci, shapes>>

\* newContour.push on a contour array that cannot grow: the call aborts
WalkExhausted ==
    /\ pc = "trace"
    /\ WalkPushes /\ Len(newContour) >= MaxContour
    /\ pc' = "exhausted"
    /\ UNCHANGED <<args, result, pipelineVars>>

\* allContours.push(newContour), the flood fill, and the scan's x++
FillStep ==
    /\ pc = "fill"
    /\ allContours' = Append(allContours, newContour)
    /\ binaryMap' = FloodFill([binaryMap EXCEPT ![Index(startPixel)] = 1],
                              <<startPixel>>)
    /\ x' = NextX /\ y' = NextY
    /\ startPixel' = NoPixel /\ currentPixel' = NoPixel
    /\ pixelToCOmeFrom' = NoPixel /\ newContour' = <<>>
    /\ pc' = "scan"
    /\ UNCHANGED <<args, result, imageData, ci, shapes>>

\* the raster scan is over
ScanEnd ==
    /\ pc = "scan" /\ y >= height
    /\ pc' = "shapes" /\ ci' = 1
    /\ UNCHANGED <<args, result, imageData, binaryMap, x, y, startPixel,
                   currentPixel, pixelToCOmeFrom, newContour, allContours, shapes>>

\* the loop body without its minimum-length filter
ShapeStepUnfiltered ==
    /\ pc = "shapes" /\ ci <= Len(allContours)
    /\ LET contour == allContours[ci]
       IN  shapes' = IF Measure(contour).type = "null" THEN shapes
                     ELSE Append(shapes, DetectedShape(contour))
    /\ ci' = ci + 1
    /\ UNCHANGED <<pc, args, result, imageData, binaryMap, x, y, startPixel,
                   currentPixel, pixelToCOmeFrom, newContour, allContours>>

\* one iteration of for (const contour of allContours)
ShapeStep ==
    /\ pc = "shapes" /\ ci <= Len(allContours)
    /\ LET contour == allContours[ci]
       IN  shapes' = IF Len(contour) < 10 THEN shapes
                     ELSE IF Measure(contour).type = "null" THEN shapes
                     ELSE Append(shapes, DetectedShape(contour))
    /\ ci' = ci + 1
    /\ UNCHANGED <<pc, args, result, imageData, binaryMap, x, y, startPixel,
                   currentPixel, pixelToCOmeFrom, newContour, allContours>>

\* detectShapes returns
Return ==
    /\ pc = "shapes" /\ ci > Len(allContours)
    /\ pc' = "done"
    /\ UNCHANGED <<args, result, pipelineVars>>

Next ==
    \/ Binarize
    \/ ScanSkip
    \/ ScanSeed
    \/ WalkStep
    \/ WalkExhausted
    \/ FillStep
    \/ ScanEnd
    \/ ShapeStep
    \/ Return

Spec == Init /\ [][Next]_vars

(***************************************************************************)
(* Claims about classifyShape (ClassifySpec)                               *)
(***************************************************************************)
Classified == pc = "classified"

\* C1 as stated: whenever circularity > 0.75 the result is "circle", for every
\* vertex count (the circularity gate comes before every vertex-count rule).
C1_CircleGateFirst ==
    (Classified /\ Gt(args.circularity, Dec(75))) => result = "circle"

\* C1 amended: with circularity > 0.75 the vertex-count rules for 3, 4 and 5
\* still come first (triangle, rectangle, pentagon); every vertex count >= 6
\* gives "circle"; a vertex count <= 2 gives "circle" only above 0.8 and is
\* unclassified otherwise.
C1_VertexRulesBeforeCircleGate ==
    (Classified /\ Gt(args.circularity, Dec(75))) =>
        result = CASE args.vertices = 3 -> "triangle"
                   [] args.vertices = 4 -> "rectangle"
                   [] args.vertices = 5 -> "pentagon"
                   [] args.vertices >= 6 -> "circle"
                   [] OTHER -> IF Gt(args.circularity, Dec(80)) THEN "circle"
                               ELSE "null"

C1_Witness ==
    /\ Classified /\ args.vertices = 3 /\ Gt(args.circularity, Dec(75))
    /\ result = "triangle"

InStarBand == args.vertices >= 10 /\ args.vertices <= 12

\* C2 as stated: 10 <= vertices <= 12 and circularity <= 0.75 give "star".
C2_StarBandBelowCircleGate ==
    (Classified /\ InStarBand /\ Le(args.circularity, Dec(75))) => result = "star"

\* C2 amended: 10 <= vertices <= 12 give "star" when circularity < 0.7 and
\* "circle" when 0.7 <= circularity <= 0.75.
C2_StarBandBelow70 ==
    (Classified /\ InStarBand /\ Le(args.circularity, Dec(75))) =>
        result = IF Lt(args.circularity, Dec(70)) THEN "star" ELSE "circle"

C2_Witness ==
    /\ Classified /\ args.vertices = 11 /\ args.circularity = <<27, 40>>
    /\ result = "star"

\* C3 as stated: vertices in {6, 7} and circularity <= 0.75 give "circle" when
\* circularity > 0.65 and "pentagon" otherwise.
C3_Band67Threshold65 ==
    (Classified /\ args.vertices \in {6, 7} /\ Le(args.circularity, Dec(75))) =>
        result = IF Gt(args.circularity, Dec(65)) THEN "circle" ELSE "pentagon"

\* C3 amended: vertices in {6, 7} and circularity <= 0.75 always give
\* "pentagon"; "circle" needs circularity > 0.75.
C3_Band67Pentagon ==
    (Classified /\ args.vertices \in {6, 7}) =>
        result = IF Gt(args.circularity, Dec(75)) THEN "circle" ELSE "pentagon"

C3_Witness ==
    /\ Classified /\ args.vertices = 6 /\ args.circularity = <<7, 10>>
    /\ result = "pentagon"

(***************************************************************************)
(* Claims about calculateConfidence (ConfidenceSpec)                       *)
(***************************************************************************)
Scored == pc = "scored"

\* C5: for every shape type, vertex count, circularity, contour length and
\* bounding box (sides of 0 included) the confidence c has 0 <= c <= 1.
C5_ConfidenceInUnitRange ==
    Scored => (Le(Whole(0), result) /\ Le(result, Whole(1)))

\* C6: a triangle with 3 vertices, circularity <= 0.7 and contour length >= 30
\* scores exactly 0.9, for any bounding box with positive sides.
C6_TriangleNoPenalty ==
    (/\ Scored
     /\ args.shapeType = "triangle" /\ args.vertices = 3
     /\ Le(args.circularity, Dec(70)) /\ args.contourLength >= 30
     /\ args.boundingBox.width > 0 /\ args.boundingBox.height > 0)
        => result = Dec(90)

C6_Witness ==
    /\ Scored
    /\ args.shapeType = "triangle" /\ args.vertices = 3
    /\ args.circularity = Dec(30) /\ args.contourLength = 100
    /\ args.boundingBox.width > 0 /\ args.boundingBox.height > 0
    /\ result = <<9, 10>>

(***************************************************************************)
(* Claims about detectShapes (Spec)                                        *)
(***************************************************************************)
PixelAt(i) == Pixel(i % width, i \div width)

ForegroundPixels(map) == {PixelAt(i) : i \in {k \in DOMAIN map : map[k] = 0}}

\* p and q are neighbours: edge neighbours, or with diagonal also corner ones
Near(p, q, diagonal) ==
    LET dx == Abs(p.x - q.x)
        dy == Abs(p.y - q.y)
    IN  IF diagonal THEN p # q /\ dx <= 1 /\ dy <= 1 ELSE dx + dy = 1

\* the foreground pixels connected to a pixel of S
RECURSIVE Grow(_, _, _)
Grow(fg, S, diagonal) ==
    LET T == S \cup {q \in fg : \E p \in S : Near(p, q, diagonal)}
    IN  IF T = S THEN S ELSE Grow(fg, T, diagonal)

Region4(map, p) == Grow(ForegroundPixels(map), {p}, FALSE)

Components(map, diagonal) ==
    {Grow(ForegroundPixels(map), {p}, diagonal) : p \in ForegroundPixels(map)}

\* the score calculateConfidence gives a contour's shape
ScoredConfidence(contour) ==
    LET m == Measure(contour)
    IN  calculateConfidence(m.type, m.vertices, m.circularity, Len(contour),
                            m.props.boundingBox)

IsAccepted(contour) == Len(contour) >= 10 /\ Measure(contour).type # "null"

\* the contours the shape loop has turned into shapes, in order
Accepted == SelectSeq(SubSeq(allContours, 1, ci - 1), IsAccepted)

\* C4: every shape detectShapes emits carries the confidence that
\* calculateConfidence yields for its type, vertex count, circularity, raw
\* contour length and bounding box.
C4_ConfidenceFromScorer ==
    pc \in {"shapes", "done"} =>
        \A k \in 1..Len(shapes) :
            shapes[k].confidence = ScoredConfidence(Accepted[k])

AllForeground == \A i \in DOMAIN imageData.data : imageData.data[i] < threshold

\* C7: on a raster whose every pixel is foreground the tracer produces no
\* contour: none is begun and none is recorded.
C7_AllForegroundNoContours ==
    AllForeground => (newContour = <<>> /\ allContours = <<>>)

\* C8: when the scan is over, every 8-connected foreground component of the
\* binary map has exactly one contour (none is missed, none is traced twice).
C8_OneContourPerComponent ==
    pc = "done" =>
        \A comp \in Components(Binarized(imageData), TRUE) :
            Cardinality({k \in 1..Len(allContours) :
                            allContours[k][1] \in comp}) = 1

\* the cells one flood fill turns to background are those of the 4-connected
\* foreground region of the start pixel; every other cell keeps its value
FillFrame ==
    pc = "fill" =>
        \A i \in DOMAIN binaryMap :
            binaryMap'[i] = IF PixelAt(i) \in Region4(binaryMap, startPixel)
                            THEN 1 ELSE binaryMap[i]

\* C9: a flood fill changes only cells inside the image that belong to the
\* 4-connected foreground region of its start pixel, so when the scan is over
\* every 4-connected region of the raster has its own contour.
C9_FloodFillFrame ==
    /\ [][FillFrame]_vars
    /\ [](pc = "done" =>
             Len(allContours) =
                 Cardinality(Components(Binarized(imageData), FALSE)))

C9_Witness ==
    /\ imageData = TwoSquares /\ pc = "done"
    /\ Len(allContours) = 2 /\ Len(shapes) = 2

\* C10: every boundary walk returns to its start pixel or finds no foreground
\* neighbour after finitely many steps, and the scan goes on to its return: no
\* walk runs on until its contour array is exhausted.  (Every walk of the
\* modelled rasters that terminates does so within 16 points; a walk that
\* reaches MaxContour points never returns.)
C10_Terminates == pc # "exhausted"

\* the positions, among the contours the shape loop has been through, of the
\* contours with at least 10 raw points that classifyShape gives a type
AcceptedAt ==
    {k \in 1..(ci - 1) :
        /\ Len(allContours[k]) >= 10
        /\ LET m == Measure(allContours[k])
           IN  classifyShape(m.vertices, m.circularity) # "null"}

\* C11: every shape of the result comes from exactly one traced contour, one
\* with at least 10 raw points to which classifyShape gives a type, in the
\* contours' order; a contour with fewer than 10 points or without a type
\* gives no shape, so there are never more shapes than contours.
C11_ShapePerAcceptedContour ==
    pc \in {"shapes", "done"} =>
        /\ Len(shapes) = Cardinality(AcceptedAt)
        /\ Len(shapes) <= Len(allContours)
        /\ \A k \in 1..Len(shapes) :
               \E c \in AcceptedAt :
                   /\ Cardinality({b \in AcceptedAt : b <= c}) = k
                   /\ LET m == Measure(allContours[c])
                      IN  /\ shapes[k].type =
                                 classifyShape(m.vertices, m.circularity)
                          /\ shapes[k].boundingBox =
                                 calculateShapeProperties(allContours[c]).boundingBox
                          /\ shapes[k].area =
                                 calculateShapeProperties(allContours[c]).area

\* the square gives a shape, the line (10 points, no type) and the single
\* pixel (1 point) give none
C11_Witness ==
    /\ imageData = SquareLineDot /\ pc = "done"
    /\ Len(allContours) = 3 /\ Len(shapes) = 1
    /\ Len(allContours[1]) >= 10 /\ shapes[1].type = "rectangle"
    /\ Len(allContours[2]) = 10 /\ Measure(allContours[2]).type = "null"
    /\ Len(allContours[3]) = 1

InsideImage(p) == p.x >= 0 /\ p.x < width /\ p.y >= 0 /\ p.y < height

\* C13: every point of every contour of the boundary walk, the one being
\* traced and those already recorded, lies inside the image: the unchecked
\* lookup y * width + x never lets the walk step outside it.
C13_ContourPointsInside ==
    /\ \A k \in 1..Len(newContour) : InsideImage(newContour[k])
    /\ \A c \in 1..Len(allContours) :
           \A k \in 1..Len(allContours[c]) : InsideImage(allContours[c][k])

(***************************************************************************)
(* Claims about calculateShapeProperties (PropertiesSpec)                  *)
(***************************************************************************)
Measured == pc = "measured"

\* the sum of x_i * y_j - x_j * y_i over the edges (i, j) of the closed
\* polygon, the edges taken from the index set I
RECURSIVE CrossSum(_, _)
CrossSum(polygon, I) ==
    IF I = {} THEN 0
    ELSE LET i == CHOOSE k \in I : TRUE
             j == IF i = Len(polygon) THEN 1 ELSE i + 1
         IN  polygon[i].x * polygon[j].y - polygon[j].x * polygon[i].y
             + CrossSum(polygon, I \ {i})

\* C12: for a non-empty contour the bounding box runs from the least to the
\* greatest coordinate with inclusive width and height, the center is
\* (minX + width/2, minY + height/2) and the area is half the absolute
\* shoelace sum of the closed polygon; the square (0,0),(4,0),(4,4),(0,4) has
\* area 16, box {0,0,5,5} and center (2.5,2.5); the empty contour has area 0,
\* a zero-sized box and center (0,0).
C12_ShapeProperties ==
    Measured =>
        LET box == result.boundingBox
            xs == {args[i].x : i \in 1..Len(args)}
            ys == {args[i].y : i \in 1..Len(args)}
        IN  /\ args # <<>> =>
                   /\ box.x \in xs /\ \A v \in xs : box.x <= v
                   /\ box.y \in ys /\ \A v \in ys : box.y <= v
                   /\ box.x + box.width - 1 \in xs
                   /\ \A v \in xs : v <= box.x + box.width - 1
                   /\ box.y + box.height - 1 \in ys
                   /\ \A v \in ys : v <= box.y + box.height - 1
                   /\ result.center.x = Norm(<<2 * box.x + box.width, 2>>)
                   /\ result.center.y = Norm(<<2 * box.y + box.height, 2>>)
                   /\ result.area =
                          Norm(<<Abs(CrossSum(args, 1..Len(args))), 2>>)
            /\ args = Square4 =>
                   /\ result.area = <<16, 1>>
                   /\ box = [x |-> 0, y |-> 0, width |-> 5, height |-> 5]
                   /\ result.center = [x |-> <<5, 2>>, y |-> <<5, 2>>]
            /\ args = <<>> =>
                   /\ result.area = <<0, 1>>
                   /\ box = [x |-> 0, y |-> 0, width |-> 0, height |-> 0]
                   /\ result.center = [x |-> <<0, 1>>, y |-> <<0, 1>>]

C12_Witness ==
    /\ Measured /\ args = Square4
    /\ result.area = <<16, 1>> /\ result.boundingBox.width = 5

=============================================================================
